---- MODULE Spec2Model ----
(***************************************************************************)
(* State-machine model of src/script.js: the page's shared AppState, the   *)
(* closure counter, the class-toggling widgets and the modal with its      *)
(* fire-and-forget close timers.  One action per event handler; a handler  *)
(* that dereferences a missing element stops at that statement with an     *)
(* uncaught TypeError, keeping the effects of the statements before it.    *)
(***************************************************************************)
EXTENDS Integers, Sequences, FiniteSets

VARIABLES
    present,          \* ids of the elements the page contains (qs() # null)
    durationOf,       \* computeDurationMs on the texts explored, fixed at Init
    lastDurationMs,   \* AppState.lastDurationMs
    localMultiplier,  \* durationInput.value as read by the last calc click
    calcResultText,   \* the ${duration} shown in #calcResult
    count,            \* the private counter captured by incrementRuns
    scopeClicks,      \* number of scope-button clicks handled so far
    scopeOutText,     \* the values interpolated into #scopeOut
    boxClasses,       \* classList of #box
    cardClasses,      \* classList of #jsFlipCard
    flipBtnText,      \* textContent of #flipBtn
    loaderClasses,    \* classList of #loader
    lastLoaderBtn,    \* the loader button clicked last
    modalClasses,     \* classList of #modal
    ariaHidden,       \* #modal's aria-hidden attribute
    timers,           \* number of pending closeModal timeouts
    lastModalOp,      \* the modal function called last: openModal / closeModal
    uncaught          \* an event handler ended in an uncaught TypeError

vars == <<present, durationOf, lastDurationMs, localMultiplier, calcResultText, count,
          scopeClicks, scopeOutText, boxClasses, cardClasses, flipBtnText,
          loaderClasses, lastLoaderBtn, modalClasses, ariaHidden, timers,
          lastModalOp, uncaught>>

calcVars   == <<lastDurationMs, localMultiplier, calcResultText>>
scopeVars  == <<count, scopeClicks, scopeOutText>>
flipVars   == <<cardClasses, flipBtnText>>
loaderVars == <<loaderClasses, lastLoaderBtn>>
modalVars  == <<modalClasses, ariaHidden, timers, lastModalOp>>

(* ------------------------------ bounds -------------------------------- *)

\* scope-button clicks explored
MaxScopeClicks == 2

\* close timers pending at the same time
MaxTimers == 2

(* ------------------------------ the page ------------------------------ *)

Elements ==
    {"calcBtn", "durationMultiplier", "calcResult", "scopeBtn", "scopeOut",
     "animateBtn", "box", "flipBtn", "jsFlipCard", "startLoader",
     "stopLoader", "loader", "modal", "openModal", "closeModal", "backdrop"}

\* The pages explored: the complete page, and each page lacking one element.
Pages == {Elements} \cup {Elements \ {e} : e \in Elements}

\* A value not yet written is the empty sequence, a written value v is <<v>>;
\* an omitted argument likewise.
None == <<>>
Some(v) == <<v>>

\* The ghost variables' value before any click.
Unset == "unset"

(* ------------------------- unbounded naturals ------------------------- *)

\* F(v) with v evaluated once, whatever the evaluation order of the tool:
\* the operators below take their arguments through it.
Strict(F(_), arg) == CHOOSE result \in {F(val) : val \in {arg}} : TRUE

\* A natural number is the sequence of its digits in base Limb, the least
\* significant first and the last one not 0; zero is the empty sequence.
\* Doubles carry 53-bit significands, beyond the range of TLC's integers.
\* Sums over the digits are taken by halves, which keeps the nesting shallow.
LimbBits == 15
Limb == 2 ^ LimbBits

\* the greatest element of a non-empty set of integers
MaxOf(set) == CHOOSE i \in set : \A j \in set : j <= i

\* the least element of a non-empty set of integers
MinOf(set) == CHOOSE i \in set : \A j \in set : i <= j

\* a without its leading zero digits
BigNorm(a) ==
    Strict(LAMBDA v :
        Strict(LAMBDA nz : IF nz = {} THEN <<>> ELSE SubSeq(v, 1, MaxOf(nz)),
               {i \in 1..Len(v) : v[i] # 0}),
        a)

\* 0 <= n < Limb^3
BigOfInt(n) ==
    Strict(LAMBDA v : BigNorm(<<v % Limb, (v \div Limb) % Limb, v \div (Limb * Limb)>>), n)

\* a < 2^31
IntOfBig(a) ==
    Strict(LAMBDA v : (IF Len(v) >= 1 THEN v[1] ELSE 0)
                      + (IF Len(v) >= 2 THEN Limb * v[2] ELSE 0)
                      + (IF Len(v) >= 3 THEN Limb * Limb * v[3] ELSE 0),
           a)

\* a + b: the carry into digit i comes from a digit below that overflows,
\* with every digit between at Limb - 1.
BigAdd(a, b) ==
    Strict(LAMBDA v :
        LET S(i) == (IF i <= Len(v.a) THEN v.a[i] ELSE 0)
                    + (IF i <= Len(v.b) THEN v.b[i] ELSE 0)
            Carry(i) == IF \E j \in 1..(i - 1) :
                              /\ S(j) >= Limb
                              /\ \A k \in (j + 1)..(i - 1) : S(k) = Limb - 1
                        THEN 1 ELSE 0
            n == (IF Len(v.a) >= Len(v.b) THEN Len(v.a) ELSE Len(v.b)) + 1
        IN  BigNorm([i \in 1..n |-> (S(i) + Carry(i)) % Limb]),
        [a |-> a, b |-> b])

\* a - b for a >= b: the borrow out of digit i comes from a digit below that
\* falls short, with every digit between equal.
BigSub(a, b) ==
    Strict(LAMBDA v :
        LET S(i) == v.a[i] - (IF i <= Len(v.b) THEN v.b[i] ELSE 0)
            Borrow(i) == IF \E j \in 1..(i - 1) :
                               /\ S(j) < 0
                               /\ \A k \in (j + 1)..(i - 1) : S(k) = 0
                         THEN 1 ELSE 0
        IN  BigNorm([i \in 1..Len(v.a) |-> (S(i) - Borrow(i) + Limb) % Limb]),
        [a |-> a, b |-> b])

\* a * Limb^k
BigShiftLimbs(a, k) ==
    Strict(LAMBDA v : IF v = <<>> THEN v ELSE [i \in 1..k |-> 0] \o v, a)

\* a * s for 0 <= s <= Limb
BigMulSmall(a, s) ==
    Strict(LAMBDA v :
        BigAdd(BigNorm([i \in 1..Len(v.a) |-> (v.a[i] * v.s) % Limb]),
               BigShiftLimbs(BigNorm([i \in 1..Len(v.a) |-> (v.a[i] * v.s) \div Limb]), 1)),
        [a |-> a, s |-> s])

\* the sum over i in lo..hi of b * a[i] * Limb^(i - 1)
RECURSIVE BigMulRows(_, _, _, _)
BigMulRows(a, b, lo, hi) ==
    Strict(LAMBDA v :
        IF v.lo = v.hi
        THEN BigShiftLimbs(BigMulSmall(b, a[v.lo]), v.lo - 1)
        ELSE BigAdd(BigMulRows(a, b, v.lo, (v.lo + v.hi) \div 2),
                    BigMulRows(a, b, (v.lo + v.hi) \div 2 + 1, v.hi)),
        [lo |-> lo, hi |-> hi])

BigMul(a, b) ==
    Strict(LAMBDA v :
        IF v.a = <<>> \/ v.b = <<>> THEN <<>>
        ELSE BigMulRows(v.a, v.b, 1, Len(v.a)),
        [a |-> a, b |-> b])

\* -1, 0 or 1 as a < b, a = b or a > b
BigCmp(a, b) ==
    Strict(LAMBDA v :
        IF Len(v.a) < Len(v.b) THEN -1
        ELSE IF Len(v.a) > Len(v.b) THEN 1
        ELSE Strict(LAMBDA diff :
                IF diff = {} THEN 0
                ELSE IF v.a[MaxOf(diff)] < v.b[MaxOf(diff)] THEN -1 ELSE 1,
                {i \in 1..Len(v.a) : v.a[i] # v.b[i]}),
        [a |-> a, b |-> b])

\* the number of binary digits of a
BigBitLen(a) ==
    Strict(LAMBDA v :
        IF v = <<>> THEN 0
        ELSE LimbBits * (Len(v) - 1)
             + (CHOOSE k \in 1..LimbBits : 2 ^ (k - 1) <= v[Len(v)] /\ v[Len(v)] < 2 ^ k),
        a)

BigIsOdd(a) == Strict(LAMBDA v : v # <<>> /\ Head(v) % 2 = 1, a)

BigPow2(n) ==
    Strict(LAMBDA v : [i \in 1..(v \div LimbBits + 1) |->
                          IF i = v \div LimbBits + 1 THEN 2 ^ (v % LimbBits) ELSE 0],
           n)

\* a * 2^n
BigShl(a, n) ==
    Strict(LAMBDA v : BigShiftLimbs(BigMulSmall(a, 2 ^ (v % LimbBits)), v \div LimbBits), n)

\* floor(a / 2^n)
BigShr(a, n) ==
    Strict(LAMBDA v :
        BigNorm([i \in 1..Len(v.b) |->
            (v.b[i] \div 2 ^ v.r)
            + (IF i < Len(v.b) THEN (v.b[i + 1] % 2 ^ v.r) * 2 ^ (LimbBits - v.r)
               ELSE 0)]),
        [r |-> n % LimbBits, b |-> SubSeq(a, n \div LimbBits + 1, Len(a))])

\* r^n for 0 <= r <= Limb
RECURSIVE BigPow(_, _)
BigPow(r, n) ==
    Strict(LAMBDA v :
        IF v = 0 THEN <<1>>
        ELSE Strict(LAMBDA h : IF v % 2 = 1 THEN BigMulSmall(BigMul(h, h), r)
                               ELSE BigMul(h, h),
                    BigPow(r, v \div 2)),
        n)

\* q with its binary digits hi down to lo set where q * y stays at most x:
\* floor(x / y) from q = 0 when the quotient has at most hi + 1 binary digits.
RECURSIVE BigDivBits(_, _, _, _, _)
BigDivBits(x, y, q, hi, lo) ==
    Strict(LAMBDA v :
        IF v.hi > v.lo
        THEN BigDivBits(x, y, BigDivBits(x, y, v.q, v.hi, (v.hi + v.lo) \div 2 + 1),
                        (v.hi + v.lo) \div 2, v.lo)
        ELSE Strict(LAMBDA t : IF BigCmp(BigMul(t, y), x) <= 0 THEN t ELSE v.q,
                    BigAdd(v.q, BigPow2(v.hi))),
        [q |-> q, hi |-> hi, lo |-> lo])

(* ------------------------------ doubles ------------------------------- *)

\* An IEEE 754 double: NaN, an infinity, or (-1)^neg * m * 2^e with either
\* 2^52 <= m < 2^53 and e >= MinExp, or m < 2^52 and e = MinExp (subnormals, 0).
MantBits == 53
MinExp == -1074
MaxExp == 971

NaN == [kind |-> "nan", neg |-> FALSE, m |-> <<>>, e |-> MinExp]
Infinity(neg) == [kind |-> "inf", neg |-> neg, m |-> <<>>, e |-> MinExp]
Finite(neg, m, e) == [kind |-> "num", neg |-> neg, m |-> m, e |-> e]
Zero(neg) == Finite(neg, <<>>, MinExp)

IsNaN(x) == x.kind = "nan"
IsZero(x) == x.kind = "num" /\ x.m = <<>>

\* The exponent e of the double nearest to a / b (a, b > 0): the quotient
\* a / (b * 2^e) has MantBits binary digits, or fewer at MinExp.
BinaryExponent(a, b) ==
    Strict(LAMBDA d :
        \* floor(log2(a / b)) is d or d - 1
        Strict(LAMBDA lg : IF lg - (MantBits - 1) < MinExp THEN MinExp
                           ELSE lg - (MantBits - 1),
               IF d >= 0
               THEN (IF BigCmp(a, BigShl(b, d)) >= 0 THEN d ELSE d - 1)
               ELSE (IF BigCmp(BigShl(a, 0 - d), b) >= 0 THEN d ELSE d - 1)),
        BigBitLen(a) - BigBitLen(b))

\* x / y of at most MantBits binary digits, rounded to the nearest integer,
\* ties to the even one.
RoundedQuotient(x, y) ==
    Strict(LAMBDA q :
        Strict(LAMBDA c : IF c > 0 \/ (c = 0 /\ BigIsOdd(q)) THEN BigAdd(q, <<1>>) ELSE q,
               BigCmp(BigShl(x, 1), BigMul(BigAdd(BigShl(q, 1), <<1>>), y))),
        BigDivBits(x, y, <<>>, MantBits - 1, 0))

\* The double nearest to a / b (b > 0), ties to the even significand.
ToDouble(neg, a, b) ==
    Strict(LAMBDA v :
        IF v.a = <<>> THEN Zero(neg)
        ELSE Strict(LAMBDA e :
                Strict(LAMBDA q :
                    IF BigBitLen(q) > MantBits
                    THEN (IF e + 1 > MaxExp THEN Infinity(neg)
                          ELSE Finite(neg, BigShr(q, 1), e + 1))
                    ELSE (IF e > MaxExp THEN Infinity(neg) ELSE Finite(neg, q, e)),
                    RoundedQuotient(IF e < 0 THEN BigShl(v.a, 0 - e) ELSE v.a,
                                    IF e > 0 THEN BigShl(v.b, e) ELSE v.b)),
                BinaryExponent(v.a, v.b)),
        [a |-> a, b |-> b])

DoubleOfInt(n) == ToDouble(n < 0, BigOfInt(IF n < 0 THEN 0 - n ELSE n), <<1>>)

\* |x| < |y| for doubles that are not NaN
MagLess(x, y) ==
    IF x.kind = "inf" THEN FALSE
    ELSE IF y.kind = "inf" THEN TRUE
    ELSE x.e < y.e \/ (x.e = y.e /\ BigCmp(x.m, y.m) < 0)

\* x < y for doubles that are not NaN; -0 counts below +0, as Math.min and
\* Math.max order them.
DoubleLess(x, y) ==
    Strict(LAMBDA v :
        IF v.x.neg /\ ~v.y.neg THEN TRUE
        ELSE IF ~v.x.neg /\ v.y.neg THEN FALSE
        ELSE IF v.x.neg THEN MagLess(v.y, v.x)
        ELSE MagLess(v.x, v.y),
        [x |-> x, y |-> y])

\* x * y
DoubleMul(x, y) ==
    Strict(LAMBDA v :
        IF IsNaN(v.x) \/ IsNaN(v.y) THEN NaN
        ELSE IF v.x.kind = "inf" \/ v.y.kind = "inf"
        THEN (IF IsZero(v.x) \/ IsZero(v.y) THEN NaN ELSE Infinity(v.x.neg # v.y.neg))
        ELSE ToDouble(v.x.neg # v.y.neg,
                      IF v.x.e + v.y.e >= 0
                      THEN BigShl(BigMul(v.x.m, v.y.m), v.x.e + v.y.e)
                      ELSE BigMul(v.x.m, v.y.m),
                      IF v.x.e + v.y.e < 0 THEN BigPow2(0 - (v.x.e + v.y.e)) ELSE <<1>>),
        [x |-> x, y |-> y])

\* The integer value of an integer-valued double within TLC's integers.
IntOfDouble(x) ==
    Strict(LAMBDA v :
        IF v.neg
        THEN 0 - IntOfBig(IF v.e >= 0 THEN BigShl(v.m, v.e) ELSE BigShr(v.m, 0 - v.e))
        ELSE IntOfBig(IF v.e >= 0 THEN BigShl(v.m, v.e) ELSE BigShr(v.m, 0 - v.e)),
        x)

(* --------------------------- number parsing --------------------------- *)

\* A text is the sequence of its characters.  StrWhiteSpaceChar: the code
\* points a module string can hold (TAB, LF, VT, FF, CR, SP, NBSP, U+1680,
\* U+FEFF); U+2000..U+200A, U+2028, U+2029, U+202F, U+205F and U+3000 cannot
\* be written in a module.
WhiteSpace == {" ", "\t", "\n", "\r", "\f", "", " ", " ", "﻿"}

Digits == {"0", "1", "2", "3", "4", "5", "6", "7", "8", "9"}

DigitVal(c) ==
    CASE c = "0" -> 0 [] c = "1" -> 1 [] c = "2" -> 2 [] c = "3" -> 3
      [] c = "4" -> 4 [] c = "5" -> 5 [] c = "6" -> 6 [] c = "7" -> 7
      [] c = "8" -> 8 [] c = "9" -> 9
      [] c \in {"a", "A"} -> 10 [] c \in {"b", "B"} -> 11
      [] c \in {"c", "C"} -> 12 [] c \in {"d", "D"} -> 13
      [] c \in {"e", "E"} -> 14 [] c \in {"f", "F"} -> 15

HexDigits == Digits \cup {"a", "b", "c", "d", "e", "f", "A", "B", "C", "D", "E", "F"}

RadixDigits(radix) ==
    IF radix = 16 THEN HexDigits
    ELSE IF radix = 8 THEN {"0", "1", "2", "3", "4", "5", "6", "7"}
    ELSE IF radix = 2 THEN {"0", "1"}
    ELSE Digits

TrimLeft(s) ==
    Strict(LAMBDA t :
        Strict(LAMBDA v : IF v = {} THEN <<>> ELSE SubSeq(t, MinOf(v), Len(t)),
               {i \in 1..Len(t) : t[i] \notin WhiteSpace}),
        s)

TrimRight(s) ==
    Strict(LAMBDA t :
        Strict(LAMBDA v :
                  IF v = {} THEN <<>>
                  ELSE SubSeq(t, 1, CHOOSE i \in v :
                                        \A j \in (i + 1)..Len(t) : t[j] \in WhiteSpace),
               {i \in 1..Len(t) : t[i] \notin WhiteSpace}),
        s)

\* The value of the digits lo..hi of s in the radix.
RECURSIVE DigitsRange(_, _, _, _)
DigitsRange(s, radix, lo, hi) ==
    Strict(LAMBDA v :
        IF v.lo > v.hi THEN <<>>
        ELSE IF v.lo = v.hi THEN BigOfInt(DigitVal(s[v.lo]))
        ELSE BigAdd(BigMul(DigitsRange(s, radix, v.lo, (v.lo + v.hi) \div 2),
                           BigPow(radix, v.hi - (v.lo + v.hi) \div 2)),
                    DigitsRange(s, radix, (v.lo + v.hi) \div 2 + 1, v.hi)),
        [lo |-> lo, hi |-> hi])

\* The value of a digit string in the radix.
DigitsValue(s, radix) == Strict(LAMBDA v : DigitsRange(v, radix, 1, Len(v)), s)

AllDigits(s) == Strict(LAMBDA v : \A i \in 1..Len(v) : v[i] \in Digits, s)

\* s without its leading zeros
StripZeros(s) ==
    Strict(LAMBDA t :
        Strict(LAMBDA v : IF v = {} THEN <<>> ELSE SubSeq(t, MinOf(v), Len(t)),
               {i \in 1..Len(t) : t[i] # "0"}),
        s)

\* s without its trailing zeros
StripZerosRight(s) ==
    Strict(LAMBDA t :
        Strict(LAMBDA v :
                  IF v = {} THEN <<>>
                  ELSE SubSeq(t, 1, CHOOSE i \in v : \A j \in (i + 1)..Len(t) : t[j] = "0"),
               {i \in 1..Len(t) : t[i] # "0"}),
        s)

\* An ExponentPart's SignedInteger without its sign.
ExponentBody(s) ==
    Strict(LAMBDA v : IF v # <<>> /\ Head(v) \in {"+", "-"} THEN Tail(v) ELSE v, s)

\* The value of an ExponentPart's SignedInteger: its sign and its magnitude,
\* a natural number of any size.
ExponentValue(s) ==
    [neg |-> s # <<>> /\ Head(s) = "-",
     mag |-> DigitsValue(StripZeros(ExponentBody(s)), 10)]

ExponentOk(s) == Strict(LAMBDA v : v # <<>> /\ AllDigits(v), ExponentBody(s))

\* The double of sig * 10^(up - down), for a digit string sig that neither
\* starts nor ends with 0 and natural numbers up and down.
ScaledToDouble(sig, up, down) ==
    Strict(LAMBDA v :
        \* at least 10^309: above every double
        IF BigCmp(BigAdd(v.up, v.len), BigAdd(v.down, BigOfInt(310))) >= 0
        THEN Infinity(FALSE)
        \* below 10^-324: less than half the least subnormal
        ELSE IF BigCmp(v.down, BigAdd(BigAdd(v.up, v.len), BigOfInt(324))) >= 0
        THEN Zero(FALSE)
        ELSE IF BigCmp(v.up, v.down) >= 0
        THEN ToDouble(FALSE,
                      BigMul(DigitsValue(sig, 10),
                             BigPow(10, IntOfBig(BigSub(v.up, v.down)))),
                      <<1>>)
        ELSE ToDouble(FALSE, DigitsValue(sig, 10),
                      BigPow(10, IntOfBig(BigSub(v.down, v.up)))),
        [up |-> up, down |-> down, len |-> BigOfInt(Len(sig))])

\* The double of digits * 10^exp / 10^fracLen, exp an ExponentValue.
DecimalToDouble(digits, fracLen, exp) ==
    Strict(LAMBDA v :
        IF v.sig = <<>> THEN Zero(FALSE)
        ELSE ScaledToDouble(v.sig,
                BigAdd(IF exp.neg THEN <<>> ELSE exp.mag,
                       BigOfInt(Len(v.lead) - Len(v.sig))),
                BigAdd(IF exp.neg THEN exp.mag ELSE <<>>, BigOfInt(fracLen))),
        [lead |-> StripZeros(digits), sig |-> StripZerosRight(StripZeros(digits))])

\* The place of the first character of s that is in set, Len(s) + 1 if none.
FirstOf(s, set) ==
    Strict(LAMBDA t :
        Strict(LAMBDA v : IF v = {} THEN Len(t) + 1 ELSE MinOf(v),
               {i \in 1..Len(t) : t[i] \in set}),
        s)

\* StrUnsignedDecimalLiteral: Infinity, or digits with an optional fraction
\* and an optional exponent part; NaN when s is none of these.
UnsignedValue(s) ==
    Strict(LAMBDA v :
        IF v = <<"I", "n", "f", "i", "n", "i", "t", "y">> THEN Infinity(FALSE)
        ELSE Strict(LAMBDA p :
                IF /\ AllDigits(p.int) /\ AllDigits(p.frac)
                   /\ Len(p.int) + Len(p.frac) > 0
                   /\ (~p.hasExp \/ ExponentOk(p.expo))
                THEN DecimalToDouble(p.int \o p.frac, Len(p.frac),
                        IF p.hasExp THEN ExponentValue(p.expo) ELSE ExponentValue(<<>>))
                ELSE NaN,
                LET ePos == FirstOf(v, {"e", "E"})
                    mant == SubSeq(v, 1, ePos - 1)
                    dPos == FirstOf(mant, {"."})
                IN  [int    |-> SubSeq(mant, 1, dPos - 1),
                     frac   |-> SubSeq(mant, dPos + 1, Len(mant)),
                     hasExp |-> ePos <= Len(v),
                     expo   |-> SubSeq(v, ePos + 1, Len(v))]),
        s)

\* NonDecimalIntegerLiteral: 0x, 0o or 0b and digits of that radix.
RadixOf(s) ==
    IF Len(s) < 3 \/ s[1] # "0" THEN 0
    ELSE IF s[2] \in {"x", "X"} THEN 16
    ELSE IF s[2] \in {"o", "O"} THEN 8
    ELSE IF s[2] \in {"b", "B"} THEN 2
    ELSE 0

Negate(x) == Strict(LAMBDA v : IF IsNaN(v) THEN v ELSE [v EXCEPT !.neg = ~v.neg], x)

\* Number(text), the StringToNumber conversion: white space is trimmed, the
\* empty string is 0, then a radix literal or a signed decimal literal;
\* anything else is NaN.
Number(text) ==
    Strict(LAMBDA s :
        IF s = <<>> THEN Zero(FALSE)
        ELSE IF RadixOf(s) # 0 THEN
            (IF \A i \in 3..Len(s) : s[i] \in RadixDigits(RadixOf(s))
             THEN ToDouble(FALSE, DigitsValue(SubSeq(s, 3, Len(s)), RadixOf(s)), <<1>>)
             ELSE NaN)
        ELSE IF Head(s) = "-" THEN Negate(UnsignedValue(Tail(s)))
        ELSE IF Head(s) = "+" THEN UnsignedValue(Tail(s))
        ELSE UnsignedValue(s),
        TrimRight(TrimLeft(text)))

(* ------------------------------ utilities ----------------------------- *)

MathMax(a, b) ==
    Strict(LAMBDA v : IF IsNaN(v.a) \/ IsNaN(v.b) THEN NaN
                      ELSE IF DoubleLess(v.a, v.b) THEN v.b ELSE v.a,
           [a |-> a, b |-> b])

MathMin(a, b) ==
    Strict(LAMBDA v : IF IsNaN(v.a) \/ IsNaN(v.b) THEN NaN
                      ELSE IF DoubleLess(v.b, v.a) THEN v.b ELSE v.a,
           [a |-> a, b |-> b])

\* Math.round: the nearest integer, a half going towards +Infinity.
MathRound(x) ==
    Strict(LAMBDA v :
        IF v.kind # "num" \/ v.e >= 0 THEN v
        ELSE Strict(LAMBDA t :
                \* t.twice = floor(2 |x|) is odd when the fraction is a half or more
                ToDouble(v.neg,
                         IF BigIsOdd(t.twice) /\ (~v.neg \/ ~t.exact)
                         THEN BigAdd(t.whole, <<1>>) ELSE t.whole,
                         <<1>>),
                [whole |-> BigShr(v.m, 0 - v.e),
                 twice |-> BigShr(BigShl(v.m, 1), 0 - v.e),
                 exact |-> BigShl(BigShr(BigShl(v.m, 1), 0 - v.e), 0 - v.e)
                           = BigShl(v.m, 1)]),
        x)

ClampNoCeiling(value, min, max) == MathMax(min, value)

clamp(value, min, max) == MathMax(min, MathMin(max, value))

base == 900
MinMultiplier == ToDouble(FALSE, <<1>>, <<4>>)
MaxMultiplier == DoubleOfInt(4)

\* Number(multiplier) || 1: NaN, 0 and -0 are falsy.
OrOne(n) == Strict(LAMBDA v : IF IsNaN(v) \/ IsZero(v) THEN DoubleOfInt(1) ELSE v, n)

computeDurationMs(multiplier) ==
    LET m == clamp(OrOne(Number(multiplier)), MinMultiplier, MaxMultiplier)
    IN  IntOfDouble(MathRound(DoubleMul(DoubleOfInt(base), m)))

\* The texts typed into #durationMultiplier.
InputTexts ==
    { <<>>,
      <<"a", "b", "c">>,
      <<"0">>,
      <<"-", "1">>,
      <<"\t", "0", ".", "3", "7", "5", "\n">>,
      <<"1", ".", "0", "0", "5">>,
      <<"0", ".", "1", "2", "3", "4">>,
      <<"1", "e", "3">>,
      <<"-", "I", "n", "f", "i", "n", "i", "t", "y">> }

ToggleIgnoringForce(el, classes, className, force) ==
    IF ~el THEN [classes |-> classes, ret |-> FALSE]
    ELSE LET c == IF className \in classes THEN classes \ {className}
                  ELSE classes \cup {className}
         IN  [classes |-> c, ret |-> className \in c]

\* toggleClass(el, className, force): el is whether the element exists, classes
\* its classList, force Some(boolean) or None when omitted; the result is the classList after
\* the call and the value returned.
toggleClass(el, classes, className, force) ==
    IF ~el THEN [classes |-> classes, ret |-> FALSE]
    ELSE IF force # None THEN
        [classes |-> IF force[1] THEN classes \cup {className}
                     ELSE classes \ {className},
         ret |-> force[1]]
    ELSE LET c == IF className \in classes THEN classes \ {className}
                  ELSE classes \cup {className}
         IN  [classes |-> c, ret |-> className \in c]

animationRuns == 0

makeCounter(start) == start

IncPostfix(c) == [count |-> c + 1, ret |-> c]

\* inc(): the captured count after the call and the value returned.
inc(c) == [count |-> c + 1, ret |-> c + 1]

(* ------------------------------- modal -------------------------------- *)

Modal == [classes |-> modalClasses, aria |-> ariaHidden, timers |-> timers]

OpenModalToggling(m) ==
    [m EXCEPT !.classes = IF "open" \in (@ \ {"closing"})
                          THEN @ \ {"closing", "open"}
                          ELSE (@ \ {"closing"}) \cup {"open"},
              !.aria = "false"]

OpenModalCancelling(m) ==
    [m EXCEPT !.classes = (@ \ {"closing"}) \cup {"open"},
              !.aria = "false",
              !.timers = 0]

openModal(m) ==
    [m EXCEPT !.classes = (@ \ {"closing"}) \cup {"open"},
              !.aria = "false"]

closeModal(m) ==
    [m EXCEPT !.classes = @ \cup {"closing"},
              !.timers = @ + 1]

TimeoutKeepingOpen(m) ==
    [m EXCEPT !.classes = @ \ {"closing"},
              !.aria = "true",
              !.timers = @ - 1]

TimeoutKeepingAria(m) ==
    [m EXCEPT !.classes = @ \ {"open", "closing"},
              !.timers = @ - 1]

\* The setTimeout callback of closeModal.
closeTimeout(m) ==
    [m EXCEPT !.classes = @ \ {"open", "closing"},
              !.aria = "true",
              !.timers = @ - 1]

SetModal(m, op) ==
    /\ modalClasses' = m.classes
    /\ ariaHidden' = m.aria
    /\ timers' = m.timers
    /\ lastModalOp' = op

Throw(unchanged) ==
    /\ uncaught' = TRUE
    /\ UNCHANGED unchanged

(* ------------------------------- Init --------------------------------- *)

Init ==
    /\ durationOf = [text \in InputTexts |-> computeDurationMs(text)]
    /\ present \in Pages
    /\ lastDurationMs = 900
    /\ localMultiplier = None
    /\ calcResultText = None
    /\ count = makeCounter(animationRuns)
    /\ scopeClicks = 0
    /\ scopeOutText = None
    /\ boxClasses = {}
    /\ cardClasses = {}
    /\ flipBtnText = Unset
    /\ loaderClasses = {}
    /\ lastLoaderBtn = Unset
    /\ modalClasses = {}
    /\ ariaHidden = "true"
    /\ timers = 0
    /\ lastModalOp = Unset
    /\ uncaught = FALSE

(* ------------------------------ handlers ------------------------------ *)

CalcClick ==
    /\ "calcBtn" \in present
    /\ \E text \in InputTexts :
        IF "durationMultiplier" \notin present
        THEN Throw(calcVars)
        ELSE /\ localMultiplier' = Some(text)
             /\ lastDurationMs' = durationOf[text]
             /\ IF "calcResult" \notin present
                THEN Throw(<<calcResultText>>)
                ELSE /\ calcResultText' = Some(durationOf[text])
                     /\ UNCHANGED uncaught
    /\ UNCHANGED <<present, durationOf, scopeVars, boxClasses, flipVars, loaderVars, modalVars>>

ScopeClick ==
    /\ "scopeBtn" \in present
    /\ scopeClicks < MaxScopeClicks
    /\ LET r1 == inc(count)
           r2 == inc(r1.count)
       IN  /\ count' = r2.count
           /\ scopeClicks' = scopeClicks + 1
           /\ IF "scopeOut" \notin present
              THEN Throw(<<scopeOutText>>)
              ELSE /\ scopeOutText' = Some([lastDurationMs |-> lastDurationMs,
                                            run1 |-> r1.ret, run2 |-> r2.ret])
                   /\ UNCHANGED uncaught
    /\ UNCHANGED <<present, durationOf, calcVars, boxClasses, flipVars, loaderVars, modalVars>>

\* The inline style the handler writes (animation-duration, --ease) is read
\* by the stylesheet only and is not part of the state.
AnimateClick ==
    /\ "animateBtn" \in present
    /\ IF "box" \notin present
       THEN Throw(<<boxClasses>>)
       ELSE /\ boxClasses' = (boxClasses \ {"run"}) \cup {"run"}
            /\ UNCHANGED uncaught
    /\ UNCHANGED <<present, durationOf, calcVars, scopeVars, flipVars, loaderVars, modalVars>>

FlipClick ==
    /\ "flipBtn" \in present
    /\ LET r == toggleClass("jsFlipCard" \in present, cardClasses, "is-flipped", None)
       IN  /\ cardClasses' = r.classes
           /\ flipBtnText' = IF r.ret THEN "Unflip Card" ELSE "Flip Card"
    /\ UNCHANGED <<present, durationOf, calcVars, scopeVars, boxClasses, loaderVars, modalVars, uncaught>>

StartLoaderClick ==
    /\ "startLoader" \in present
    /\ loaderClasses' = toggleClass("loader" \in present, loaderClasses, "on", Some(TRUE)).classes
    /\ lastLoaderBtn' = "startLoader"
    /\ UNCHANGED <<present, durationOf, calcVars, scopeVars, boxClasses, flipVars, modalVars, uncaught>>

StopLoaderClick ==
    /\ "stopLoader" \in present
    /\ loaderClasses' = toggleClass("loader" \in present, loaderClasses, "on", Some(FALSE)).classes
    /\ lastLoaderBtn' = "stopLoader"
    /\ UNCHANGED <<present, durationOf, calcVars, scopeVars, boxClasses, flipVars, modalVars, uncaught>>

\* closeModal() as called by a handler: modal.classList of a missing modal
\* throws before the timeout is set.
CallCloseModal ==
    IF "modal" \notin present
    THEN Throw(modalVars)
    ELSE /\ SetModal(closeModal(Modal), "closeModal")
         /\ UNCHANGED uncaught

OpenModalClick ==
    /\ "openModal" \in present
    /\ IF "modal" \notin present
       THEN Throw(modalVars)
       ELSE /\ SetModal(openModal(Modal), "openModal")
            /\ UNCHANGED uncaught
    /\ UNCHANGED <<present, durationOf, calcVars, scopeVars, boxClasses, flipVars, loaderVars>>

CloseModalClick ==
    /\ "closeModal" \in present
    /\ timers < MaxTimers
    /\ CallCloseModal
    /\ UNCHANGED <<present, durationOf, calcVars, scopeVars, boxClasses, flipVars, loaderVars>>

BackdropClick ==
    /\ "backdrop" \in present
    /\ timers < MaxTimers
    /\ CallCloseModal
    /\ UNCHANGED <<present, durationOf, calcVars, scopeVars, boxClasses, flipVars, loaderVars>>

Keys == {"Escape", "Enter"}

KeyDown ==
    /\ timers < MaxTimers
    /\ \E key \in Keys :
        IF key # "Escape" THEN UNCHANGED <<modalVars, uncaught>>
        ELSE IF "modal" \notin present THEN Throw(modalVars)
        ELSE IF "open" \in modalClasses THEN CallCloseModal
        ELSE UNCHANGED <<modalVars, uncaught>>
    /\ UNCHANGED <<present, durationOf, calcVars, scopeVars, boxClasses, flipVars, loaderVars>>

\* A pending timeout of closeModal expires.
TimerFire ==
    /\ timers > 0
    /\ SetModal(closeTimeout(Modal), lastModalOp)
    /\ UNCHANGED <<present, durationOf, calcVars, scopeVars, boxClasses, flipVars, loaderVars, uncaught>>

Next ==
    \/ CalcClick
    \/ ScopeClick
    \/ AnimateClick
    \/ FlipClick
    \/ StartLoaderClick
    \/ StopLoaderClick
    \/ OpenModalClick
    \/ CloseModalClick
    \/ BackdropClick
    \/ KeyDown
    \/ TimerFire

Spec == Init /\ [][Next]_vars

\* The browser runs every timeout that was set.
FairSpec == Spec /\ WF_vars(TimerFire)

(* ------------------------------- claims ------------------------------- *)

\* The duration the specification gives a multiplier text: text that is not a
\* number, or is empty, counts as 1; any number m, 0 included, gives
\* Math.round(900 * clamp(m, 0.25, 4)).
ClaimedDuration(text) ==
    LET n == Number(text)
        m == IF IsNaN(n) \/ TrimRight(TrimLeft(text)) = <<>> THEN DoubleOfInt(1) ELSE n
        c == IF DoubleLess(m, MinMultiplier) THEN MinMultiplier
             ELSE IF DoubleLess(MaxMultiplier, m) THEN MaxMultiplier ELSE m
    IN  IntOfDouble(MathRound(DoubleMul(DoubleOfInt(base), c)))

ClaimedOf == [text \in InputTexts |-> ClaimedDuration(text)]

\* C1: for every multiplier text the calculator reads, the duration it stores
\* is round(900 * clamp(m, 0.25, 4)), with m = 1 for empty or non-numeric text
\* and m the number itself otherwise, numeric 0 and negatives included.
C1_DurationIsRoundedClampedProduct ==
    localMultiplier # None =>
        lastDurationMs = ClaimedOf[localMultiplier[1]]

\* C2: toggleClass on a present element with force = true (false) leaves the
\* class present (absent) and returns that boolean, whatever the membership
\* was; so the loader's 'on' class equals the last loader button clicked.
C2_ForcedToggleSetsMembership ==
    /\ \A f \in BOOLEAN : \A cl \in {loaderClasses, cardClasses} :
          LET r == toggleClass(TRUE, cl, "on", Some(f))
          IN  r.ret = f /\ (("on" \in r.classes) <=> f)
    /\ ("loader" \in present /\ lastLoaderBtn = "startLoader") => "on" \in loaderClasses
    /\ ("loader" \in present /\ lastLoaderBtn = "stopLoader") => "on" \notin loaderClasses

C2_Witness ==
    /\ "loader" \in present
    /\ lastLoaderBtn = "stopLoader"
    /\ "on" \notin loaderClasses
    /\ "is-flipped" \in cardClasses

\* C3: the n-th call of the counter made by makeCounter(seed) returns seed + n:
\* after k scope clicks the counter has been called 2k times, and the k-th
\* click reports run1 = seed + 2k - 1 and run2 = seed + 2k, strictly increasing.
C3_CounterReturnsSeedPlusN ==
    /\ count = animationRuns + 2 * scopeClicks
    /\ inc(count).ret = animationRuns + 2 * scopeClicks + 1
    /\ scopeOutText # None =>
          /\ scopeOutText[1].run1 = animationRuns + 2 * scopeClicks - 1
          /\ scopeOutText[1].run2 = animationRuns + 2 * scopeClicks
          /\ animationRuns < scopeOutText[1].run1
          /\ scopeOutText[1].run1 < scopeOutText[1].run2

C3_Witness ==
    /\ scopeClicks = 2
    /\ scopeOutText # None
    /\ scopeOutText[1].run1 = 3
    /\ scopeOutText[1].run2 = 4

\* C4: openModal is idempotent: in every reachable modal state, a second
\* openModal leaves classes, aria-hidden and pending timers as the first did.
C4_OpenModalIdempotent ==
    "modal" \in present => openModal(openModal(Modal)) = openModal(Modal)

C4_Witness ==
    /\ lastModalOp = "openModal"
    /\ timers > 0
    /\ modalClasses = {"open"}
    /\ ariaHidden = "false"

FullyClosed ==
    /\ "open" \notin modalClasses
    /\ "closing" \notin modalClasses
    /\ ariaHidden = "true"

\* closeModal ran and no openModal followed it.
CloseTriggered == lastModalOp = "closeModal"

\* C5: after closeModal was triggered, however often, and with no openModal
\* following, the modal is fully closed once the timers have fired, it stays
\* fully closed when a remaining timer fires, and it does get there.
C5_CloseEndsFullyClosed ==
    /\ [](CloseTriggered /\ timers = 0 => FullyClosed)
    /\ [][CloseTriggered /\ FullyClosed /\ TimerFire => FullyClosed']_vars
    /\ (CloseTriggered ~> (FullyClosed \/ ~CloseTriggered))

C5_Witness ==
    /\ CloseTriggered
    /\ timers = 0
    /\ FullyClosed

\* C6: AppState.lastDurationMs is always an integer in [225, 3600], and only
\* the calculate handler changes it.
C6_LastDurationInRange ==
    /\ [](lastDurationMs \in 225..3600)
    /\ [][lastDurationMs' # lastDurationMs => CalcClick]_vars

C6_Witness ==
    /\ lastDurationMs = 225
    /\ calcResultText = Some(225)
    /\ scopeOutText # None
    /\ scopeOutText[1].lastDurationMs = 3600

ModalState(classes) ==
    IF classes = {} THEN "closed"
    ELSE IF classes = {"open"} THEN "open"
    ELSE IF classes = {"open", "closing"} THEN "closing"
    ELSE "closing without open"

\* C7: the modal only moves closed -> open -> closing -> closed: 'closing' is
\* never present without 'open', and no step goes from closing back to open,
\* from closed to closing or from open to closed.
C7_OnlyStateMachineTransitions ==
    [][/\ "closing" \in modalClasses' => "open" \in modalClasses'
       /\ \/ ModalState(modalClasses') = ModalState(modalClasses)
          \/ <<ModalState(modalClasses), ModalState(modalClasses')>> \in
                {<<"closed", "open">>, <<"open", "closing">>, <<"closing", "closed">>}
      ]_vars

\* C8: every DOM lookup is guarded: whichever element is missing, no handler
\* raises an error, and toggleClass on a missing element returns false and
\* changes nothing.
C8_NoHandlerThrows ==
    /\ ~uncaught
    /\ toggleClass(FALSE, cardClasses, "is-flipped", None)
          = [classes |-> cardClasses, ret |-> FALSE]

\* C9: the close timer is fire-and-forget: each closeModal sets one timer,
\* openModal cancels none, only a timer's expiry removes it, and an expiring
\* timer hides the modal (no 'open', aria-hidden "true") even when it was
\* reopened meanwhile.
C9_TimersAreNeverCancelled ==
    [][/\ OpenModalClick => timers' = timers
       /\ ("modal" \in present /\ CallCloseModal) => timers' = timers + 1
       /\ timers' < timers => TimerFire
       /\ TimerFire => /\ timers' = timers - 1
                       /\ "open" \notin modalClasses'
                       /\ ariaHidden' = "true"
      ]_vars

\* closeModal, openModal, timer: the reopened modal was hidden by the timer.
C9_Witness ==
    /\ lastModalOp = "openModal"
    /\ "open" \notin modalClasses
    /\ ariaHidden = "true"

\* C10: aria-hidden is "false" exactly when the modal has the 'open' class.
C10_AriaHiddenMatchesOpen ==
    "modal" \in present => (ariaHidden = "false" <=> "open" \in modalClasses)

C10_Witness ==
    /\ "open" \in modalClasses
    /\ "closing" \in modalClasses
    /\ ariaHidden = "false"
    /\ timers = 2

====
